---- MODULE Spec2Model ----
(***************************************************************************)
(* text-aligner: run / process / Line of src/src/lib.rs as a state machine. *)
(*                                                                         *)
(* A string is a sequence of characters; a character is a one-element      *)
(* TLA+ string.  Lengths are byte lengths, as str::len() is: the character *)
(* Wide stands for any two-byte UTF-8 character (such as U+00E9).          *)
(* One run of `run` is one behaviour: Init is the state after line 9       *)
(* (content split into words) and lines 88-89 (empty Line, fresh iterator);*)
(* the actions are the steps of the loop of `process`.                     *)
(***************************************************************************)
EXTENDS Integers, Sequences, FiniteSets, TLC

\* ---------------------------------------------------------------- bounds
\* Longest content, in characters.
MaxContentLen == 6
\* Largest max_len handed to run (the smallest is 0: max_len is a usize).
MaxWidth == 5
\* Width of usize in the model.  Only wrap-around of `len - 1` at 0 and of
\* `max_len - len` below 0 is ever taken, and both results are the same for
\* every width whose modulus exceeds MaxWidth + 2.
UsizeBits == 16

\* ------------------------------------------------------------ characters
SP == " "
LF == "\n"
Wide == "E"
Chars == {"a", Wide, LF, SP}

Align == {"Left", "Right", "Justify"}

UsizeModulus == 2 ^ UsizeBits

\* usize subtraction in a build without overflow checks.
WrappingSub(a, b) == (a - b + UsizeModulus) % UsizeModulus

\* char::len_utf8
ByteLen(c) == IF c = Wide THEN 2 ELSE 1

\* str::len: the length in bytes.
RECURSIVE StrLen(_)
StrLen(s) == IF s = <<>> THEN 0 ELSE ByteLen(Head(s)) + StrLen(Tail(s))

\* content.split(' '): always at least one piece; two adjacent spaces, a
\* leading or a trailing space give an empty piece.
RECURSIVE Split(_)
Split(s) ==
    IF \A i \in 1..Len(s) : s[i] # SP
    THEN <<s>>
    ELSE LET i == CHOOSE k \in 1..Len(s) :
                     s[k] = SP /\ \A j \in 1..(k - 1) : s[j] # SP
         IN  <<SubSeq(s, 1, i - 1)>> \o Split(SubSeq(s, i + 1, Len(s)))

\* ------------------------------------------------------------------ Line
\* Line::new
NewLine(max_len) ==
    [words_count |-> 0, len |-> 0, max_len |-> max_len, words |-> <<>>]

\* The test of line 162, on word_len as rebound at lines 156-160.
Fits(line, word_len) == word_len + line.len <= line.max_len

AddedWidth_NoSeparator(line, word_len) == word_len

\* word_len as rebound at lines 156-160: a word after the first brings its
\* separating space.
AddedWidth(line, word_len) ==
    IF line.words_count # 0 THEN word_len + 1 ELSE word_len

\* Line::push.  state "Panic" is the panic! of line 153.
Push(line, word) ==
    LET word_len == StrLen(word)
        added == AddedWidth(line, word_len)
    IN  IF word_len > line.max_len
        THEN [state |-> "Panic", line |-> line]
        ELSE IF Fits(line, added)
             THEN [state |-> "NextWord",
                   line |-> [line EXCEPT !.words = Append(@, word),
                                         !.len = @ + added,
                                         !.words_count = @ + 1]]
             ELSE [state |-> "Wrap", line |-> line]

\* Line::clear
Clear(line) == [line EXCEPT !.words_count = 0, !.len = 0, !.words = <<>>]

\* ------------------------------------------------------------- renderers
\* What one call of the on_line_wrap closure writes, all fragments
\* concatenated in the order of the writer.write calls.
Spaces(n) == [i \in 1..n |-> SP]

\* words_iter.for_each(|w| writer.write(&format!(" {w}")))
RECURSIVE WriteRest(_)
WriteRest(ws) ==
    IF ws = <<>> THEN <<>> ELSE <<SP>> \o Head(ws) \o WriteRest(Tail(ws))

\* The Left closure, lines 14-19.
RenderLeft(line, len) == Head(line.words) \o WriteRest(Tail(line.words))

RenderRight_NoPad(line, len) ==
    Head(line.words) \o WriteRest(Tail(line.words))

\* The Right closure, lines 27-38.
RenderRight(line, len) ==
    LET free_space == WrappingSub(len, line.len)
    IN  Spaces(free_space) \o Head(line.words) \o WriteRest(Tail(line.words))

RECURSIVE JustifyRest_NoDecrement(_, _, _)
JustifyRest_NoDecrement(ws, big_jump, small_jump) ==
    IF ws = <<>>
    THEN <<>>
    ELSE Spaces(big_jump)
         \o (IF small_jump # 0 THEN <<SP>> ELSE <<>>)
         \o <<SP>> \o Head(ws)
         \o JustifyRest_NoDecrement(Tail(ws), big_jump, small_jump)

\* The body of the for_each of lines 60-71, with small_jump as the mutable
\* counter it is.
RECURSIVE JustifyRest(_, _, _)
JustifyRest(ws, big_jump, small_jump) ==
    IF ws = <<>>
    THEN <<>>
    ELSE Spaces(big_jump)
         \o (IF small_jump # 0 THEN <<SP>> ELSE <<>>)
         \o <<SP>> \o Head(ws)
         \o JustifyRest(Tail(ws), big_jump,
                        IF small_jump # 0 THEN small_jump - 1 ELSE small_jump)

\* The Justify closure, lines 45-72.
RenderJustify(line, len) ==
    LET free_space == WrappingSub(len, line.len)
        gaps == IF line.words_count = 1 THEN 1 ELSE line.words_count - 1
        big_jump == free_space \div gaps
        small_jump == free_space % gaps
    IN  Head(line.words) \o JustifyRest(Tail(line.words), big_jump, small_jump)

\* The closure run hands to process for each mode, lines 11-77.
OnLineWrap(align, line, len) ==
    CASE align = "Left" -> RenderLeft(line, len)
      [] align = "Right" -> RenderRight(line, len)
      [] align = "Justify" -> RenderJustify(line, len)

\* `len - line.len` of lines 28 and 46 underflows.
RenderUnderflows(align, line, len) == align # "Left" /\ line.len > len

\* ----------------------------------------------------------------- state
VARIABLES
    content,          \* run's argument
    max_len,          \* run's argument
    align,            \* run's argument
    overflow_checks,  \* the build: TRUE panics on usize overflow, FALSE wraps
    words,            \* line 9
    idx,              \* words_iter: index of the next word it yields
    line,             \* the Line of process
    out,              \* every fragment written to the sink, concatenated
    renders,          \* one record per on_line_wrap call: what it was given
                      \* and what it wrote
    pc                \* where process is

vars == <<content, max_len, align, overflow_checks, words, idx, line, out,
          renders, pc>>

Contents == UNION {[1..n -> Chars] : n \in 0..MaxContentLen}

Init ==
    /\ content \in Contents
    /\ max_len \in 0..MaxWidth
    /\ align \in Align
    /\ overflow_checks \in BOOLEAN
    /\ words = Split(content)
    /\ idx = 1
    /\ line = NewLine(max_len)
    /\ out = <<>>
    /\ renders = <<>>
    /\ pc = "loop"

\* The record of one on_line_wrap call that wrote text.
RenderRecord(l, text, final) ==
    [words |-> l.words, words_count |-> l.words_count, len |-> l.len,
     text |-> text, final |-> final]

\* Line 93, LineState::NextWord.
PushNextWord ==
    /\ pc = "loop"
    /\ idx <= Len(words)
    /\ Push(line, words[idx]).state = "NextWord"
    /\ line' = Push(line, words[idx]).line
    /\ idx' = idx + 1
    /\ UNCHANGED <<content, max_len, align, overflow_checks, words, out,
                   renders, pc>>

\* Line 93, LineState::Wrap: the word is held while lines 96-102 run.
PushWrap ==
    /\ pc = "loop"
    /\ idx <= Len(words)
    /\ Push(line, words[idx]).state = "Wrap"
    /\ line' = Push(line, words[idx]).line
    /\ idx' = idx + 1
    /\ pc' = "wrap"
    /\ UNCHANGED <<content, max_len, align, overflow_checks, words, out,
                   renders>>

PushTooLong_FlushesLine ==
    /\ pc = "loop"
    /\ idx <= Len(words)
    /\ Push(line, words[idx]).state = "Panic"
    /\ pc' = "WordTooLong"
    /\ out' = IF line.words_count > 0
              THEN out \o OnLineWrap(align, line, max_len)
              ELSE out
    /\ UNCHANGED <<content, max_len, align, overflow_checks, words, idx, line,
                   renders>>

\* Line 93 reaching the panic! of line 153.
PushTooLong ==
    /\ pc = "loop"
    /\ idx <= Len(words)
    /\ Push(line, words[idx]).state = "Panic"
    /\ pc' = "WordTooLong"
    /\ UNCHANGED <<content, max_len, align, overflow_checks, words, idx, line,
                   out, renders>>

\* Lines 96-102: render the line, clear it, push the held word, write "\n".
\* A line that wraps was filled by pushes alone, so its len is at most
\* max_len and `len - line.len` cannot underflow here.
WrapLine ==
    /\ pc = "wrap"
    /\ out' = out \o OnLineWrap(align, line, max_len) \o <<LF>>
    /\ renders' = Append(renders,
            RenderRecord(line, OnLineWrap(align, line, max_len), FALSE))
    /\ line' = Push(Clear(line), words[idx - 1]).line
    /\ pc' = "loop"
    /\ UNCHANGED <<content, max_len, align, overflow_checks, words, idx>>

\* chars.next_back(); chars.as_str(): the word without its last character.
DropLastChar(w) == IF w = <<>> THEN w ELSE SubSeq(w, 1, Len(w) - 1)

\* Lines 109-113 on a line with at least one word.
TrimmedLine(l) ==
    [l EXCEPT !.words[Len(l.words)] = DropLastChar(@),
              !.len = WrappingSub(@, 1)]

\* The for loop is exhausted; lines 107-113.  `line.len -= 1` at len = 0
\* wraps in a build without overflow checks.
TrimLast ==
    /\ pc = "loop"
    /\ idx > Len(words)
    /\ ~(overflow_checks /\ line.words_count > 0 /\ line.len = 0)
    /\ IF line.words_count > 0
       THEN line' = TrimmedLine(line) /\ pc' = "trimmed"
       ELSE line' = line /\ pc' = "done"
    /\ UNCHANGED <<content, max_len, align, overflow_checks, words, idx, out,
                   renders>>

\* Line 112 at len = 0 in a build with overflow checks: "attempt to subtract
\* with overflow".
TrimLastOverflow ==
    /\ pc = "loop"
    /\ idx > Len(words)
    /\ overflow_checks /\ line.words_count > 0 /\ line.len = 0
    /\ pc' = "SubtractOverflow"
    /\ UNCHANGED <<content, max_len, align, overflow_checks, words, idx, line,
                   out, renders>>

RenderLast_AlwaysLeft ==
    /\ pc = "trimmed"
    /\ out' = out \o RenderLeft(line, max_len) \o <<LF>>
    /\ renders' = Append(renders,
            RenderRecord(line, RenderLeft(line, max_len), TRUE))
    /\ pc' = "done"
    /\ UNCHANGED <<content, max_len, align, overflow_checks, words, idx, line>>

\* Lines 116-117.  len exceeds max_len here only after line 112 wrapped,
\* which a build with overflow checks never lets happen.
RenderLast ==
    /\ pc = "trimmed"
    /\ IF overflow_checks /\ RenderUnderflows(align, line, max_len)
       THEN /\ pc' = "SubtractOverflow"
            /\ UNCHANGED <<out, renders>>
       ELSE /\ out' = out \o OnLineWrap(align, line, max_len) \o <<LF>>
            /\ renders' = Append(renders,
                    RenderRecord(line, OnLineWrap(align, line, max_len), TRUE))
            /\ pc' = "done"
    /\ UNCHANGED <<content, max_len, align, overflow_checks, words, idx, line>>

Next ==
    \/ PushNextWord
    \/ PushWrap
    \/ PushTooLong
    \/ WrapLine
    \/ TrimLast
    \/ TrimLastOverflow
    \/ RenderLast

Spec == Init /\ [][Next]_vars

\* ================================================================ claims
\* Helpers of the statements below; none of them is used by the model.

Last(s) == s[Len(s)]
Front(s) == SubSeq(s, 1, Len(s) - 1)

\* content_length of the specification: the bytes of the words plus one
\* separating space per word after the first.
RECURSIVE WordBytes(_)
WordBytes(ws) == IF ws = <<>> THEN 0 ELSE StrLen(Last(ws)) + WordBytes(Front(ws))

ContentLength(ws) == IF ws = <<>> THEN 0 ELSE WordBytes(ws) + Len(ws) - 1

\* The words joined left to right, the gap before the word at position n
\* (n >= 2) being gap[n - 2] spaces wide: gaps are numbered from 0.
RECURSIVE Joined(_, _)
Joined(ws, gap) ==
    IF Len(ws) = 1
    THEN ws[1]
    ELSE Joined(Front(ws), gap) \o Spaces(gap[Len(ws) - 2]) \o Last(ws)

\* The Left-mode rendering: single spaces between the words.
LeftText(ws) == Joined(ws, [i \in 0..Len(ws) |-> 1])

RECURSIVE Concat(_)
Concat(ss) == IF ss = <<>> THEN <<>> ELSE Head(ss) \o Concat(Tail(ss))

AllWordsFit == \A i \in 1..Len(words) : StrLen(words[i]) <= max_len
SomeWordTooLong == \E i \in 1..Len(words) : StrLen(words[i]) > max_len
Panicked == pc \in {"WordTooLong", "SubtractOverflow"}
NonFinal == {i \in 1..Len(renders) : ~renders[i].final}
Final == {i \in 1..Len(renders) : renders[i].final}

\* The input the tests of lib.rs give: words that fit, single spaces between
\* non-empty words, and one line terminator, at the very end.
WellFormed ==
    /\ content # <<>>
    /\ Last(content) = LF
    /\ \A i \in 1..(Len(content) - 1) : content[i] # LF
    /\ \A i \in 1..Len(words) : words[i] # <<>>
    /\ Last(words) # <<LF>>
    /\ AllWordsFit

\* ---- C1
\* C1, as stated: on an input whose words all fit, every line rendered
\* before the last one is exactly max_width wide, except a one-word line in
\* Left mode.  Stated for well-formed input.
C1_NonFinalWidthAsStated ==
    WellFormed =>
        \A i \in NonFinal :
            \/ StrLen(renders[i].text) = max_len
            \/ (renders[i].words_count = 1 /\ align = "Left")

\* C1, amended: every line rendered before the last one is exactly max_width
\* wide in Right mode, and in Justify mode when it holds two words or more;
\* in Left mode, and in Justify mode with one word, it is as wide as its
\* content (words plus single separators), which is at most max_width.
C1_NonFinalWidth ==
    \A i \in NonFinal :
        LET r == renders[i]
        IN  IF align = "Right" \/ (align = "Justify" /\ r.words_count >= 2)
            THEN StrLen(r.text) = max_len
            ELSE /\ StrLen(r.text) = ContentLength(r.words)
                 /\ StrLen(r.text) <= max_len

\* A run that completed after rendering, before its last line, a Right line
\* of two words whose content is narrower than max_width.
C1_Witness ==
    /\ pc = "done"
    /\ align = "Right"
    /\ AllWordsFit
    /\ \E i \in NonFinal :
          /\ renders[i].words_count >= 2
          /\ renders[i].len < max_len

\* ---- C2
\* C2, as stated: the last line equals the Left-mode rendering of its words
\* in every mode, unless its content exactly fills max_width.  Stated for
\* well-formed input.
C2_LastLineLeftAsStated ==
    WellFormed =>
        \A i \in Final :
            \/ ContentLength(renders[i].words) = max_len
            \/ renders[i].text = LeftText(renders[i].words)

\* C2, amended: the last line is rendered by the configured mode, like any
\* other line, from the line as it is after the last word lost its final
\* character and len was decremented.  In Left mode, and in Justify mode
\* with one word, it is the Left-mode rendering of the words; in Right mode
\* it is that rendering after max_width - len spaces (usize arithmetic); in
\* Justify mode with two words or more all max_width - len free spaces are
\* added to the single separators.
C2_LastLineByMode ==
    \A i \in Final :
        LET r == renders[i]
            free_space == WrappingSub(max_len, r.len)
        IN  CASE align = "Left" -> r.text = LeftText(r.words)
              [] align = "Right" ->
                    r.text = Spaces(free_space) \o LeftText(r.words)
              [] align = "Justify" ->
                    IF r.words_count = 1
                    THEN r.text = LeftText(r.words)
                    ELSE StrLen(r.text) =
                            StrLen(LeftText(r.words)) + free_space

\* A last line of two words that Right mode pads.
C2_Witness ==
    \E i \in Final :
        /\ align = "Right"
        /\ renders[i].words_count >= 2
        /\ renders[i].len < max_len
        /\ content # <<>>
        /\ Last(content) = LF

\* ---- C3
\* C3: when a word of the input is longer than max_width, nothing is ever
\* written to the sink: the run panics before its first write.  Stated for
\* an input of non-empty words and a positive max_width.
C3_NothingWrittenBeforeWordTooLong ==
    (SomeWordTooLong /\ max_len > 0
        /\ \A i \in 1..Len(words) : words[i] # <<>>) => out = <<>>

\* ---- C4
\* The words of a text: line terminators stripped (each taken as a break),
\* runs of separators collapsed, split on spaces.
Unbroken(s) == [i \in 1..Len(s) |-> IF s[i] = LF THEN SP ELSE s[i]]
WordsOf(s) == SelectSeq(Split(Unbroken(s)), LAMBDA w : w # <<>>)

\* C4: when no word exceeds max_width, the words of the output are the words
\* of the input, in order.
C4_RoundTrip ==
    (pc = "done" /\ AllWordsFit) => WordsOf(out) = WordsOf(content)

\* ---- C5
\* C5: on empty content the run completes normally and writes nothing.
C5_EmptyContentWritesNothing ==
    content = <<>> => (~Panicked /\ out = <<>>)

\* ---- C6
\* C6: at end of input the last word loses one character and len one unit
\* exactly when the content ends with a line terminator, and that character
\* is the terminator; otherwise word and len are as the pushes left them.
\* Stated for a content whose last word is not empty.
C6_TrimOnlyTerminator ==
    (pc = "trimmed" /\ Last(words) # <<>>) =>
        LET pushed == [line.words EXCEPT ![Len(line.words)] = Last(words)]
        IN  IF content # <<>> /\ Last(content) = LF
            THEN /\ Last(words) = Last(line.words) \o <<LF>>
                 /\ line.len = ContentLength(pushed) - 1
            ELSE /\ Last(line.words) = Last(words)
                 /\ line.len = ContentLength(pushed)

\* ---- C7
\* C7: a Justify line of two words or more, rendered for target width
\* max_len from recorded length len, has gap i (from the left, from 0)
\* exactly 1 + big_jump spaces wide, plus one if and only if i < remainder,
\* where free_space = max_len - len, gaps = words_count - 1,
\* big_jump = free_space / gaps, remainder = free_space % gaps; so the
\* widths never increase from left to right.
C7_JustifyGaps ==
    align = "Justify" =>
        \A k \in 1..Len(renders) :
            LET r == renders[k]
                free_space == max_len - r.len
                gaps == r.words_count - 1
                big_jump == free_space \div gaps
                remainder == free_space % gaps
                gap == [i \in 0..r.words_count |->
                            1 + big_jump + (IF i < remainder THEN 1 ELSE 0)]
            IN  r.words_count >= 2 =>
                    /\ free_space >= 0
                    /\ r.text = Joined(r.words, gap)
                    /\ \A i, j \in 0..(gaps - 1) : i < j => gap[i] >= gap[j]

\* A Justify line of three words whose free space does not divide evenly.
C7_Witness ==
    /\ align = "Justify"
    /\ \E k \in 1..Len(renders) :
          /\ renders[k].words_count >= 3
          /\ (max_len - renders[k].len) % (renders[k].words_count - 1) # 0

\* ---- C8
\* C8: pushing a word no longer than max_width appends it, adds its width to
\* len and one to words_count, and is accepted, exactly when len + the
\* word's length + (1 if the line holds a word, else 0) <= max_width;
\* otherwise it is rejected and words, words_count and len are unchanged.
\* The first conjunct is the push of line 93; the second the push of line
\* 99, of the rejected word into the line just cleared (no separator).
C8_PushAcceptsIffFits ==
    [][ /\ (pc = "loop" /\ idx <= Len(words)
                /\ StrLen(words[idx]) <= max_len) =>
            LET w == words[idx]
                sep == IF line.words # <<>> THEN 1 ELSE 0
            IN  IF line.len + StrLen(w) + sep <= max_len
                THEN /\ pc' = "loop"
                     /\ line'.words = line.words \o <<w>>
                     /\ line'.len = line.len + StrLen(w) + sep
                     /\ line'.words_count = line.words_count + 1
                ELSE /\ pc' = "wrap"
                     /\ line' = line
        /\ pc = "wrap" =>
            /\ pc' = "loop"
            /\ line'.words = <<words[idx - 1]>>
            /\ line'.len = StrLen(words[idx - 1])
            /\ line'.words_count = 1 ]_vars

\* A push was rejected by a line that had accepted two words.
C8_Witness == pc = "wrap" /\ line.words_count >= 2

\* ---- C9
\* C9: when the run has aborted with WordTooLong, the sink holds the
\* rendered lines, each followed by its terminator, and nothing else; the
\* words of those lines followed by the words still held in the line are
\* exactly the words read before the over-long one.
C9_NoPartialLine ==
    pc = "WordTooLong" =>
        /\ out = Concat([i \in 1..Len(renders) |-> renders[i].text \o <<LF>>])
        /\ Concat([i \in 1..Len(renders) |-> renders[i].words]) \o line.words
              = SubSeq(words, 1, idx - 1)
        /\ \A i \in 1..Len(renders) : ~renders[i].final

\* The run aborted after rendering a line and with words held in the line.
C9_Witness ==
    pc = "WordTooLong" /\ renders # <<>> /\ line.words_count > 0

\* ---- C10
\* C10: the recorded len is the content length of the line's words and is
\* at most max_width, in every state of a run.
C10_LenIsContentLength ==
    /\ line.len = ContentLength(line.words)
    /\ line.len <= max_len

====
